---- MODULE Spec2Model ----
(***************************************************************************)
(* The parallel GFA emission of the compacted de Bruijn graph              *)
(* (CdBG::output_maximal_unitigs_gfa and its helpers in                    *)
(* src/src/CdBG_GFA_Writer.cpp): the per-sequence sharding, the unitig     *)
(* walker of every worker, the compare-and-swap on the vertex slots, the   *)
(* per-thread witnesses, buffers and path spools, the stitcher and the     *)
(* path record.                                                            *)
(*                                                                         *)
(* Sequence positions are 0-based as in the source; the TLA+ sequence      *)
(* holding a nucleotide sequence is 1-based, so seq[idx] of the source is  *)
(* seq[idx + 1] here.                                                      *)
(***************************************************************************)
EXTENDS Integers, Sequences, FiniteSets, TLC

\* ----------------------------------------------------------------- bounds
\* The length of the longest input sequence, and the largest thread count.
MaxLen == 7
MaxThreads == 3
\* An input of several sequences: how many, and how long they are together.
MaxSeqs == 2
MaxTotalLen == 6

\* ------------------------------------------------------ program constants
\* The k-mer length of the run (odd, fixed per run).
k == 3
\* Lines a thread buffers before it flushes them to the output sink.
MAX_BUFF_SIZE == 2

PLACEHOLDER_NUCLEOTIDE == "N"
FWD == "FWD"
BWD == "BWD"

\* The nucleotides input sequences are drawn from.
Alphabet == {"A", "T", PLACEHOLDER_NUCLEOTIDE}

\* -------------------------------------------------------------- k-mers
\* The 2-bit code of a nucleotide, and its complement.
Code == [A |-> 0, C |-> 1, G |-> 2, T |-> 3]
complement == [A |-> "T", C |-> "G", G |-> "C", T |-> "A"]

\* The packed value of a nucleotide string: k-mers compare as these values,
\* which is the lexicographic order of the strings.
RECURSIVE Pack(_)
Pack(s) ==
    IF s = <<>> THEN 0
    ELSE 4 * Pack(SubSeq(s, 1, Len(s) - 1)) + Code[s[Len(s)]]

Window(seq, idx) == SubSeq(seq, idx + 1, idx + k)

ReverseComplement(s) == [j \in 1..Len(s) |-> complement[s[Len(s) + 1 - j]]]

\* seq[idx..idx+k) holds no placeholder nucleotide.
IsValidKmer(seq, idx) ==
    /\ idx >= 0
    /\ idx + k <= Len(seq)
    /\ \A j \in (idx + 1)..(idx + k) : seq[j] # PLACEHOLDER_NUCLEOTIDE

\* The fields of an Annotated_Kmer at position idx of seq.
kmer_t(seq, idx) == Pack(Window(seq, idx))
rev_compl(seq, idx) == Pack(ReverseComplement(Window(seq, idx)))
canonical(seq, idx) ==
    IF kmer_t(seq, idx) < rev_compl(seq, idx) THEN kmer_t(seq, idx)
    ELSE rev_compl(seq, idx)
kmer_dir(seq, idx) ==
    IF kmer_t(seq, idx) = canonical(seq, idx) THEN FWD ELSE BWD

\* No valid neighbouring k-mer to the left / to the right of the k-mer at idx.
NoLeftNeighbor(seq, idx) ==
    idx = 0 \/ seq[idx] = PLACEHOLDER_NUCLEOTIDE
NoRightNeighbor(seq, idx) ==
    idx + k = Len(seq) \/ seq[idx + k + 1] = PLACEHOLDER_NUCLEOTIDE

\* ------------------------------------------------------- the vertex table
\* The positions of the valid k-mers of a sequence.
KmerPositions(seq) == {i \in 0..(Len(seq) - k) : IsValidKmer(seq, i)}

\* The canonical k-mers (vertices) of an input.
VertexSet(in) ==
    UNION {{canonical(in[n], i) : i \in KmerPositions(in[n])} : n \in 1..Len(in)}

\* What an occurrence of a vertex shows on the entering and on the exiting
\* side of its canonical form: the neighbouring nucleotide, or "$" where the
\* occurrence has no neighbour on that side (end of sequence, placeholder).
LeftSymbol(seq, idx) ==
    IF NoLeftNeighbor(seq, idx) THEN "$" ELSE seq[idx]
RightSymbol(seq, idx) ==
    IF NoRightNeighbor(seq, idx) THEN "$" ELSE seq[idx + k + 1]
Compl(sym) == IF sym = "$" THEN "$" ELSE complement[sym]
EnterSymbol(seq, idx) ==
    IF kmer_dir(seq, idx) = FWD THEN LeftSymbol(seq, idx)
    ELSE Compl(RightSymbol(seq, idx))
ExitSymbol(seq, idx) ==
    IF kmer_dir(seq, idx) = FWD THEN RightSymbol(seq, idx)
    ELSE Compl(LeftSymbol(seq, idx))

Occurrences(in, v) ==
    {p \in UNION {{<<n, i>> : i \in KmerPositions(in[n])} : n \in 1..Len(in)} :
        canonical(in[p[1]], p[2]) = v}

\* The DFA state of a vertex: a side is "multi" when the occurrences of the
\* vertex show more than one thing on that side.
VertexClassOf(in, v) ==
    LET occ == Occurrences(in, v)
        ins == {EnterSymbol(in[p[1]], p[2]) : p \in occ}
        outs == {ExitSymbol(in[p[1]], p[2]) : p \in occ}
    IN  IF Cardinality(ins) > 1
        THEN (IF Cardinality(outs) > 1 THEN "multi_in_multi_out"
              ELSE "multi_in_single_out")
        ELSE (IF Cardinality(outs) > 1 THEN "single_in_multi_out"
              ELSE "single_in_single_out")

\* The minimal perfect hash of the vertex set: the rank of the k-mer in it.
BuildMphf(in) ==
    [v \in VertexSet(in) |-> Cardinality({w \in VertexSet(in) : w < v})]

\* The table after construction: every vertex classified, nothing outputted.
BuildVertices(in) ==
    LET h == BuildMphf(in)
    IN  [b \in 0..(Cardinality(VertexSet(in)) - 1) |->
            [vertex_class |-> VertexClassOf(in, CHOOSE v \in VertexSet(in) : h[v] = b),
             outputted |-> FALSE]]

VARIABLES
    input,          \* the sequences of the reference file, in file order
    thread_count,   \* the thread count of the run
    mphf,           \* the minimal perfect hash: canonical k-mer -> bucket
    Vertices,       \* the hash table: bucket -> [vertex_class, outputted]
    seq_count,      \* the number of sequences parsed so far
    pc,             \* the position of the main thread
    task,           \* the index range handed to each worker of the sequence
    pending,        \* per worker: the unitigs its walker has yet to output
    wpc,            \* per worker: its position inside output_unitig_gfa
    read_state,     \* per worker: the slot state its hash table entry holds
    first_unitig, second_unitig, last_unitig,
    output_buffer,  \* per thread: the buffered segment and link lines
    path_output, overlap_output,  \* per thread: the temporary path files
    sink,           \* the lines of the GFA output file
    passed,         \* per worker: the unitigs it has passed to output_unitig_gfa
                    \* for the sequence (history, read by no action)
    stderr,         \* the error messages of the run
    \* Read_CdBG (Read_CdBG.cpp), a pipeline of its own:
    params,             \* Build_Params of the run: extract_cycles, dcc_opt
    graph_has_dcc,      \* whether the graph has detached chordless cycles
    json_file,          \* the build-info file at json_file_path()
    dbg_info,           \* the dBG_Info of the Read_CdBG object
    hash_table_file,    \* whether the hash table is saved on disk
    rpc,                \* the last phase construct() has been through
    phases,             \* the work done in this run, in order (history)
    extractions         \* extraction runs over all the runs (history)

read_cdbg == <<params, graph_has_dcc, json_file, dbg_info, hash_table_file,
               rpc, phases, extractions>>

writer == <<input, thread_count, mphf, Vertices, seq_count, pc, task, pending,
            wpc, read_state, first_unitig, second_unitig, last_unitig,
            output_buffer, path_output, overlap_output, sink, passed, stderr>>

vars == <<writer, read_cdbg>>

Threads == 0..(thread_count - 1)

\* ------------------------------------------------------------ the DFA
VertexClass(seq, idx) == Vertices[mphf[canonical(seq, idx)]].vertex_class

\* More than one way into the vertex / out of the vertex, in the direction
\* the vertex is met at.
MultiIn(class, dir) ==
    \/ class = "multi_in_multi_out"
    \/ dir = FWD /\ class = "multi_in_single_out"
    \/ dir = BWD /\ class = "single_in_multi_out"
MultiOut(class, dir) ==
    \/ class = "multi_in_multi_out"
    \/ dir = FWD /\ class = "single_in_multi_out"
    \/ dir = BWD /\ class = "multi_in_single_out"

is_unipath_start(vertex_class, dir, prev_kmer_class, prev_kmer_dir) ==
    MultiIn(vertex_class, dir) \/ MultiOut(prev_kmer_class, prev_kmer_dir)
is_unipath_end(vertex_class, dir, next_kmer_class, next_kmer_dir) ==
    MultiOut(vertex_class, dir) \/ MultiIn(next_kmer_class, next_kmer_dir)

\* The predicates on the k-mer at idx and its left / right neighbour.
StartsAt(seq, idx) ==
    is_unipath_start(VertexClass(seq, idx), kmer_dir(seq, idx),
                     VertexClass(seq, idx - 1), kmer_dir(seq, idx - 1))
EndsAt(seq, idx) ==
    is_unipath_end(VertexClass(seq, idx), kmer_dir(seq, idx),
                   VertexClass(seq, idx + 1), kmer_dir(seq, idx + 1))

\* ---------------------------------------------------------- the walker
\* The smallest index in [from, to] of a placeholder-free k-mer, else to + 1.
search_valid_kmer(seq, from, to) ==
    IF \E i \in from..to : IsValidKmer(seq, i)
    THEN CHOOSE i \in from..to :
            IsValidKmer(seq, i) /\ \A j \in from..(i - 1) : ~IsValidKmer(seq, j)
    ELSE to + 1

\* The loop of output_maximal_unitigs_gfa over the rest of a contiguous
\* subsequence, at its condition with kmer_idx already advanced. out holds
\* the <<start index, end index>> pairs passed to output_unitig_gfa so far.
\* last is the index of the last k-mer the walker looked at.
KeepWalking_NoOvershoot(on_unipath, kmer_idx, right_end) ==
    kmer_idx <= right_end

KeepWalking(on_unipath, kmer_idx, right_end) ==
    on_unipath \/ kmer_idx <= right_end

\* The index the walker returns: the non-inclusive end of the contiguous
\* subsequence it processed, k past the k-mer index it stopped at.
ReturnedIndex_Same(kmer_idx) ==
    kmer_idx

ReturnedIndex(kmer_idx) ==
    kmer_idx + k

RECURSIVE WalkRest(_, _, _, _, _, _)
WalkRest(seq, right_end, kmer_idx, on_unipath, unipath_start, out) ==
    IF ~KeepWalking(on_unipath, kmer_idx, right_end)
    THEN [out |-> out, ret |-> ReturnedIndex(kmer_idx), last |-> kmer_idx - 1]
    ELSE
        LET starts == StartsAt(seq, kmer_idx)
            on1 == on_unipath \/ starts
            start1 == IF starts THEN kmer_idx ELSE unipath_start
        IN  IF NoRightNeighbor(seq, kmer_idx)
            THEN [out |-> IF on1 THEN Append(out, <<start1, kmer_idx>>) ELSE out,
                  ret |-> ReturnedIndex(kmer_idx), last |-> kmer_idx]
            ELSE IF on1 /\ EndsAt(seq, kmer_idx)
                 THEN WalkRest(seq, right_end, kmer_idx + 1, FALSE, start1,
                               Append(out, <<start1, kmer_idx>>))
                 ELSE WalkRest(seq, right_end, kmer_idx + 1, on1, start1, out)

\* output_maximal_unitigs_gfa(thread_id, seq, seq_len, right_end, start_idx):
\* the unitigs output off the contiguous subsequence starting at start_idx,
\* and the index returned.
walk_maximal(seq, right_end, start_idx) ==
    IF NoLeftNeighbor(seq, start_idx) /\ NoRightNeighbor(seq, start_idx)
    THEN [out |-> <<<<start_idx, start_idx>>>>, ret |-> ReturnedIndex(start_idx),
          last |-> start_idx]
    ELSE IF NoRightNeighbor(seq, start_idx)
    THEN [out |-> IF StartsAt(seq, start_idx)
                  THEN <<<<start_idx, start_idx>>>> ELSE <<>>,
          ret |-> ReturnedIndex(start_idx), last |-> start_idx]
    ELSE
        LET on0 == NoLeftNeighbor(seq, start_idx) \/ StartsAt(seq, start_idx)
            closes == on0 /\ EndsAt(seq, start_idx)
        IN  WalkRest(seq, right_end, start_idx + 1, on0 /\ ~closes, start_idx,
                     IF closes THEN <<<<start_idx, start_idx>>>> ELSE <<>>)

\* output_gfa_off_substring: the unitigs a worker outputs off [left_end,
\* right_end], in order, and the last k-mer its walker looked at (-1: none).
RECURSIVE off_substring(_, _, _, _)
off_substring(seq, kmer_idx, right_end, res) ==
    IF kmer_idx > right_end THEN res
    ELSE
        LET v == search_valid_kmer(seq, kmer_idx, right_end)
        IN  IF v > right_end THEN res
            ELSE LET w == walk_maximal(seq, right_end, v)
                 IN  off_substring(seq, w.ret, right_end,
                                   [out |-> res.out \o w.out, last |-> w.last])

output_gfa_off_substring(seq, left_end, right_end) ==
    off_substring(seq, left_end, right_end, [out |-> <<>>, last |-> -1])

\* ------------------------------------------------------ oriented unitigs
InvalidUnitig ==
    [unitig_id |-> -1, dir |-> FWD, start_kmer_idx |-> 0, end_kmer_idx |-> 0]
is_valid(u) == u.unitig_id # -1

Min(a, b) == IF a < b THEN a ELSE b

\* The flanking k-mer output_unitig_gfa queries the hash table with.
min_flanking_kmer_Start(seq, start_idx, end_idx) == canonical(seq, start_idx)

min_flanking_kmer(seq, start_idx, end_idx) ==
    Min(canonical(seq, start_idx), canonical(seq, end_idx))

\* The direction output_unitig_gfa gives the unitig.
unitig_dir_Forward(seq, start_idx, end_idx) == FWD

unitig_dir(seq, start_idx, end_idx) ==
    IF kmer_t(seq, start_idx) < rev_compl(seq, end_idx) THEN FWD ELSE BWD

\* The Oriented_Unitig output_unitig_gfa makes of its flanking k-mers.
current_unitig(seq, start_idx, end_idx) ==
    [unitig_id |-> mphf[min_flanking_kmer(seq, start_idx, end_idx)],
     dir |-> unitig_dir(seq, start_idx, end_idx),
     start_kmer_idx |-> start_idx,
     end_kmer_idx |-> end_idx]

Sign(u) == IF u.dir = FWD THEN "+" ELSE "-"
SegmentName(u) == [unitig_id |-> u.unitig_id, sign |-> Sign(u)]
Overlap_Always(left_unitig, right_unitig) == k - 1

Overlap(left_unitig, right_unitig) ==
    IF right_unitig.start_kmer_idx = left_unitig.end_kmer_idx + 1 THEN k - 1 ELSE 0

\* ------------------------------------------------------------ GFA lines
\* The segment text: the sequence range for FWD, its reverse complement for BWD.
SegmentText_Short(seq, start_kmer_idx, end_kmer_idx, dir) ==
    LET range == SubSeq(seq, start_kmer_idx + 1, end_kmer_idx + k - 1)
    IN  IF dir = FWD THEN range ELSE ReverseComplement(range)

SegmentText(seq, start_kmer_idx, end_kmer_idx, dir) ==
    LET range == SubSeq(seq, start_kmer_idx + 1, end_kmer_idx + k)
    IN  IF dir = FWD THEN range ELSE ReverseComplement(range)

\* The S line write_gfa_segment buffers. of_seq and at are not part of the
\* line: they record the sequence and the position the line was written for.
SegmentLine(seq, u) ==
    [type |-> "S",
     name |-> u.unitig_id,
     segment |-> SegmentText(seq, u.start_kmer_idx, u.end_kmer_idx, u.dir),
     LN |-> u.end_kmer_idx - u.start_kmer_idx + k,
     KC |-> u.end_kmer_idx - u.start_kmer_idx + 1,
     of_seq |-> seq_count,
     at |-> u.start_kmer_idx]

\* The L line write_gfa_link buffers: From, To (name and sign) and Overlap.
\* left and right (the linked unitigs with their positions) and of_seq are
\* not part of the line.
LinkLine(left_unitig, right_unitig) ==
    [type |-> "L",
     from |-> SegmentName(left_unitig),
     to |-> SegmentName(right_unitig),
     overlap |-> Overlap(left_unitig, right_unitig),
     left |-> left_unitig,
     right |-> right_unitig,
     of_seq |-> seq_count]

GFA_HEADER == [type |-> "H"]

\* fill_buffer: a line is appended to the buffer of the thread, which is
\* written to the sink and emptied once it holds MAX_BUFF_SIZE lines.
\* io is [buf: the buffer of the thread, sink: the output file].
fill_buffer(io, line) ==
    LET b == Append(io.buf, line)
    IN  IF Len(b) >= MAX_BUFF_SIZE
        THEN [buf |-> <<>>, sink |-> io.sink \o b]
        ELSE [buf |-> b, sink |-> io.sink]

\* --------------------------------------------------------- the hash table
is_outputted(state) == state.outputted
outputted(state) == [state EXCEPT !.outputted = TRUE]

\* Kmer_Hash_Table::update: the slot takes the new state if it still holds
\* the state the entry was read with.
update_succeeds(table, bucket, read, new) == table[bucket] = read
update(table, bucket, read, new) ==
    IF update_succeeds(table, bucket, read, new)
    THEN [table EXCEPT ![bucket] = new]
    ELSE table

\* ------------------------------------------------------------- sharding
\* The index ranges handed to the workers of a sequence of length seq_len.
task_size_Ceiling(seq_len) ==
    (seq_len - k + 1 + thread_count - 1) \div thread_count

task_size(seq_len) == (seq_len - k + 1) \div thread_count

Tasks_Overlapping(seq_len) ==
    IF task_size(seq_len) = 0
    THEN [t \in {0} |-> [left_end |-> 0, right_end |-> seq_len - k]]
    ELSE [t \in Threads |->
            [left_end |-> t * task_size(seq_len),
             right_end |-> IF t = thread_count - 1 THEN seq_len - k
                           ELSE t * task_size(seq_len) + task_size(seq_len)]]

Tasks_NoRemainder(seq_len) ==
    IF task_size(seq_len) = 0
    THEN [t \in {0} |-> [left_end |-> 0, right_end |-> seq_len - k]]
    ELSE [t \in Threads |->
            [left_end |-> t * task_size(seq_len),
             right_end |-> t * task_size(seq_len) + task_size(seq_len) - 1]]

Tasks(seq_len) ==
    IF task_size(seq_len) = 0
    THEN [t \in {0} |-> [left_end |-> 0, right_end |-> seq_len - k]]
    ELSE [t \in Threads |->
            [left_end |-> t * task_size(seq_len),
             right_end |-> IF t = thread_count - 1 THEN seq_len - k
                           ELSE t * task_size(seq_len) + task_size(seq_len) - 1]]

Workers == DOMAIN task
CurrentSeq == input[seq_count]

\* The unitigs the walker of a worker outputs off its range, in order, each as
\* the Oriented_Unitig output_unitig_gfa makes of it.
WorkerUnitigs(seq, left_end, right_end) ==
    LET out == output_gfa_off_substring(seq, left_end, right_end).out
    IN  [j \in 1..Len(out) |-> current_unitig(seq, out[j][1], out[j][2])]

\* ------------------------------------------------------- the path files
\* An entry of the Overlaps field: <overlap>M, or * for no overlap at all.
Cigar(overlap) == [len |-> overlap, op |-> "M"]
NoCigar == [len |-> 0, op |-> "*"]

\* append_link_to_path: the destination of the link and its overlap are
\* appended to the path files of the thread. spools is [path, overlap], each
\* a function of the thread id.
append_link_to_path(spools, thread_id, left_unitig, right_unitig) ==
    [path |-> [spools.path EXCEPT
                  ![thread_id] = Append(@, SegmentName(right_unitig))],
     overlap |-> [spools.overlap EXCEPT
                  ![thread_id] = Append(@, Cigar(Overlap(left_unitig, right_unitig)))]]

\* write_gfa_link: the link line goes to the buffer of the thread.
write_gfa_link(io, left_unitig, right_unitig) ==
    fill_buffer(io, LinkLine(left_unitig, right_unitig))

\* write_gfa_segment: the segment line goes to the buffer of the thread.
write_gfa_segment(io, seq, u) ==
    fill_buffer(io, SegmentLine(seq, u))

\* ------------------------------------------------------------ the workers
\* The second half of output_unitig_gfa by thread t for unitig u: the
\* witnesses, the link from the previous unitig of the thread and the path
\* entry; the walker then goes on to its next unitig. io is the buffer of
\* the thread and the sink after the segment part.
\* w is [first, second, last], the witnesses of a thread: what they are
\* after the thread has output unitig u.
UpdateWitnesses_SecondFirst(w, u) ==
    [first |-> IF is_valid(w.second) /\ ~is_valid(w.first) THEN u ELSE w.first,
     second |-> IF ~is_valid(w.second) THEN u ELSE w.second,
     last |-> u]

UpdateWitnesses(w, u) ==
    [first |-> IF ~is_valid(w.first) THEN u ELSE w.first,
     second |-> IF is_valid(w.first) /\ ~is_valid(w.second) THEN u ELSE w.second,
     last |-> u]

OutputLinkPart(t, u, io) ==
    LET prev_unitig == last_unitig[t]
        w == UpdateWitnesses([first |-> first_unitig[t],
                              second |-> second_unitig[t],
                              last |-> last_unitig[t]], u)
        io1 == IF is_valid(prev_unitig)
               THEN write_gfa_link(io, prev_unitig, u) ELSE io
        spools == [path |-> path_output, overlap |-> overlap_output]
        spools1 == IF is_valid(prev_unitig)
                   THEN append_link_to_path(spools, t, prev_unitig, u)
                   ELSE spools
    IN  /\ first_unitig' = [first_unitig EXCEPT ![t] = w.first]
        /\ second_unitig' = [second_unitig EXCEPT ![t] = w.second]
        /\ last_unitig' = [last_unitig EXCEPT ![t] = w.last]
        /\ path_output' = spools1.path
        /\ overlap_output' = spools1.overlap
        /\ output_buffer' = [output_buffer EXCEPT ![t] = io1.buf]
        /\ sink' = io1.sink
        /\ pending' = [pending EXCEPT ![t] = Tail(@)]
        /\ passed' = [passed EXCEPT ![t] = Append(@, u)]
        /\ wpc' = [wpc EXCEPT
                     ![t] = IF Tail(pending[t]) = <<>> THEN "done" ELSE "load"]

\* The test output_unitig_gfa makes before it tries to output a segment.
MayOutputSegment_Always(state) == TRUE

MayOutputSegment(state) == ~is_outputted(state)

\* The state output_unitig_gfa hands to the update of the slot.
NewState_Fresh(state) == [vertex_class |-> "single_in_single_out", outputted |-> TRUE]

NewState(state) == outputted(state)

\* output_unitig_gfa up to the test of the outputted flag: the worker reads
\* the slot of the unitig; if the unitig is outputted already, it goes on
\* with the link part.
WorkerLoad_SkipsOutputted(t) ==
    /\ pc = "workers"
    /\ wpc[t] = "load"
    /\ LET u == Head(pending[t])
           state == Vertices[u.unitig_id]
       IN  /\ read_state' = (t :> state) @@ read_state
           /\ IF MayOutputSegment(state)
              THEN /\ wpc' = [wpc EXCEPT ![t] = "update"]
                   /\ UNCHANGED <<pending, passed>>
              ELSE /\ pending' = [pending EXCEPT ![t] = Tail(@)]
                   /\ passed' = [passed EXCEPT ![t] = Append(@, u)]
                   /\ wpc' = [wpc EXCEPT
                                ![t] = IF Tail(pending[t]) = <<>> THEN "done"
                                       ELSE "load"]
    /\ UNCHANGED <<stderr, read_cdbg>>
    /\ UNCHANGED <<input, thread_count, mphf, Vertices, seq_count, pc, task,
                   first_unitig, second_unitig, last_unitig, output_buffer,
                   path_output, overlap_output, sink>>

WorkerLoad(t) ==
    /\ pc = "workers"
    /\ wpc[t] = "load"
    /\ LET u == Head(pending[t])
           state == Vertices[u.unitig_id]
       IN  /\ read_state' = (t :> state) @@ read_state
           /\ IF MayOutputSegment(state)
              THEN /\ wpc' = [wpc EXCEPT ![t] = "update"]
                   /\ UNCHANGED <<pending, first_unitig, second_unitig,
                                  last_unitig, output_buffer, path_output,
                                  overlap_output, sink, passed>>
              ELSE OutputLinkPart(t, u, [buf |-> output_buffer[t], sink |-> sink])
    /\ UNCHANGED <<stderr, read_cdbg>>
    /\ UNCHANGED <<input, thread_count, mphf, Vertices, seq_count, pc, task>>

\* output_unitig_gfa from the hash table update on: the segment is written
\* only if the update succeeds; the link part follows either way.
WorkerUpdate(t) ==
    /\ pc = "workers"
    /\ wpc[t] = "update"
    /\ LET u == Head(pending[t])
           new == NewState(read_state[t])
           io == [buf |-> output_buffer[t], sink |-> sink]
       IN  /\ Vertices' = update(Vertices, u.unitig_id, read_state[t], new)
           /\ OutputLinkPart(t, u,
                 IF update_succeeds(Vertices, u.unitig_id, read_state[t], new)
                 THEN write_gfa_segment(io, CurrentSeq, u) ELSE io)
    /\ UNCHANGED <<stderr, read_cdbg>>
    /\ UNCHANGED <<input, thread_count, mphf, seq_count, pc, task, read_state>>

\* ------------------------------------------------------------ the stitcher
\* The thread whose path files take the link between the last unitig of
\* thread left_t_id and the first unitig of thread t_id.
PathThreadOfLink_Right(left_t_id, t_id) == t_id

PathThreadOfLink(left_t_id, t_id) == left_t_id

\* The test of the stitcher for a thread that output unitigs.
HasUnitigs_Always(t_id) == TRUE

HasUnitigs(t_id) == is_valid(first_unitig[t_id])

\* write_inter_thread_links from thread t_id on. st holds the unitig to the
\* left and its thread, the buffers, the sink and the path files.
RECURSIVE InterThreadLinks(_, _)
InterThreadLinks(t_id, st) ==
    IF t_id >= thread_count THEN st
    ELSE IF ~is_valid(st.left_unitig)
    THEN InterThreadLinks(t_id + 1,
            [st EXCEPT !.left_unitig = last_unitig[t_id], !.left_t_id = t_id])
    ELSE IF HasUnitigs(t_id)
    THEN
        LET right_unitig == first_unitig[t_id]
            io == write_gfa_link([buf |-> st.buf[t_id], sink |-> st.sink],
                                 st.left_unitig, right_unitig)
            spools == append_link_to_path(st.spools,
                                          PathThreadOfLink(st.left_t_id, t_id),
                                          st.left_unitig, right_unitig)
        IN  InterThreadLinks(t_id + 1,
                [left_unitig |-> last_unitig[t_id],
                 left_t_id |-> t_id,
                 buf |-> [st.buf EXCEPT ![t_id] = io.buf],
                 sink |-> io.sink,
                 spools |-> spools])
    ELSE InterThreadLinks(t_id + 1, st)

write_inter_thread_links ==
    InterThreadLinks(0,
        [left_unitig |-> InvalidUnitig,
         left_t_id |-> 0,
         buf |-> output_buffer,
         sink |-> sink,
         spools |-> [path |-> path_output, overlap |-> overlap_output]])

\* search_first_link from thread t_id on, with the left unitig found so far:
\* the first two unitigs of the sequence.
RECURSIVE SearchFirstLink(_, _)
SearchFirstLink(t_id, left_unitig) ==
    IF t_id >= thread_count
    THEN [left_unitig |-> left_unitig, right_unitig |-> InvalidUnitig]
    ELSE
        LET found == is_valid(first_unitig[t_id])
            left1 == IF found /\ ~is_valid(left_unitig)
                     THEN first_unitig[t_id] ELSE left_unitig
        IN  IF found /\ is_valid(left_unitig)
            THEN [left_unitig |-> left_unitig, right_unitig |-> first_unitig[t_id]]
            ELSE IF is_valid(second_unitig[t_id])
            THEN [left_unitig |-> left1, right_unitig |-> second_unitig[t_id]]
            ELSE SearchFirstLink(t_id + 1, left1)

search_first_link == SearchFirstLink(0, InvalidUnitig)

\* The contents of the files of threads t_id.. in ascending thread order.
RECURSIVE Concat(_, _)
Concat(files, t_id) ==
    IF t_id >= thread_count THEN <<>>
    ELSE files[t_id] \o Concat(files, t_id + 1)

\* The P line write_gfa_path appends for the first link found.
PathLine_ZeroBased(link) ==
    [type |-> "P",
     name |-> seq_count - 1,
     segments |-> <<SegmentName(link.left_unitig)>> \o Concat(path_output, 0),
     overlaps |-> IF ~is_valid(link.right_unitig) THEN <<NoCigar>>
                  ELSE <<Cigar(Overlap(link.left_unitig, link.right_unitig))>>
                       \o Concat(overlap_output, 0)]

PathLine(link) ==
    [type |-> "P",
     name |-> seq_count,
     segments |-> <<SegmentName(link.left_unitig)>> \o Concat(path_output, 0),
     overlaps |-> IF ~is_valid(link.right_unitig) THEN <<NoCigar>>
                  ELSE <<Cigar(Overlap(link.left_unitig, link.right_unitig))>>
                       \o Concat(overlap_output, 0)]

\* flush_buffers from thread t_id on: every non-empty buffer goes to the sink.
RECURSIVE FlushFrom(_, _)
FlushFrom(t_id, snk) ==
    IF t_id >= thread_count THEN snk
    ELSE FlushFrom(t_id + 1, snk \o output_buffer[t_id])

flush_buffers == FlushFrom(0, sink)

\* ------------------------------------------------------- the main thread
NoUnitigs == [t \in Threads |-> InvalidUnitig]
EmptyFiles == [t \in Threads |-> <<>>]

\* The reset of a witness array at the start of a sequence.
ResetWitness_Keeps(old) == old

ResetWitness(old) == NoUnitigs

\* The loop of output_maximal_unitigs_gfa parses a sequence shorter than k:
\* it is counted and nothing else is done for it.
SkipShortSequence ==
    /\ pc = "read"
    /\ seq_count < Len(input)
    /\ Len(input[seq_count + 1]) < k
    /\ seq_count' = seq_count + 1
    /\ UNCHANGED <<stderr, read_cdbg>>
    /\ UNCHANGED <<input, thread_count, mphf, Vertices, pc, task, pending, wpc,
                   read_state, first_unitig, second_unitig, last_unitig,
                   output_buffer, path_output, overlap_output, sink, passed>>

\* The loop parses a sequence of length >= k: the witnesses and the path
\* files are reset, the index range is split and the workers are started
\* (a single worker, thread 0, when the task size is 0).
\* table is the hash table the workers of the sequence start on.
StartSequence(table) ==
    /\ pc = "read"
    /\ seq_count < Len(input)
    /\ Vertices' = table
    /\ LET seq == input[seq_count + 1]
       IN  /\ Len(seq) >= k
           /\ seq_count' = seq_count + 1
           /\ first_unitig' = ResetWitness(first_unitig)
           /\ second_unitig' = ResetWitness(second_unitig)
           /\ last_unitig' = ResetWitness(last_unitig)
           /\ path_output' = EmptyFiles
           /\ overlap_output' = EmptyFiles
           /\ task' = Tasks(Len(seq))
           /\ pending' = [t \in Threads |->
                            IF t \in DOMAIN Tasks(Len(seq))
                            THEN WorkerUnitigs(seq, Tasks(Len(seq))[t].left_end,
                                               Tasks(Len(seq))[t].right_end)
                            ELSE <<>>]
           /\ wpc' = [t \in Threads |->
                        IF pending'[t] = <<>> THEN "done" ELSE "load"]
           /\ read_state' = <<>>
           /\ passed' = EmptyFiles
           /\ pc' = "workers"
    /\ UNCHANGED <<stderr, read_cdbg>>
    /\ UNCHANGED <<input, thread_count, mphf, output_buffer, sink>>

BeginSequence_ResetsTable == StartSequence(BuildVertices(input))

BeginSequence == StartSequence(Vertices)

AllWorkersDone_NoJoin == TRUE

AllWorkersDone == \A t \in Threads : wpc[t] = "done"

\* The workers are joined and the links between their unitigs are written.
JoinAndStitch ==
    /\ pc = "workers"
    /\ task_size(Len(CurrentSeq)) # 0
    /\ AllWorkersDone
    /\ LET st == write_inter_thread_links
       IN  /\ output_buffer' = st.buf
           /\ sink' = st.sink
           /\ path_output' = st.spools.path
           /\ overlap_output' = st.spools.overlap
    /\ pc' = "path"
    /\ UNCHANGED <<stderr, read_cdbg>>
    /\ UNCHANGED <<input, thread_count, mphf, Vertices, seq_count, task, pending,
                   wpc, read_state, first_unitig, second_unitig, last_unitig,
                   passed>>

\* The single worker of a task size of 0 ran in the main thread and returns.
SingleWorkerReturns ==
    /\ pc = "workers"
    /\ task_size(Len(CurrentSeq)) = 0
    /\ AllWorkersDone
    /\ pc' = "path"
    /\ UNCHANGED <<stderr, read_cdbg>>
    /\ UNCHANGED <<input, thread_count, mphf, Vertices, seq_count, task, pending,
                   wpc, read_state, first_unitig, second_unitig, last_unitig,
                   output_buffer, path_output, overlap_output, sink, passed>>

\* write_gfa_path: the P line of the sequence, if it has a unitig at all.
WritePath ==
    /\ pc = "path"
    /\ sink' = IF is_valid(search_first_link.left_unitig)
               THEN Append(sink, PathLine(search_first_link))
               ELSE sink
    /\ pc' = "read"
    /\ UNCHANGED <<stderr, read_cdbg>>
    /\ UNCHANGED <<input, thread_count, mphf, Vertices, seq_count, task, pending,
                   wpc, read_state, first_unitig, second_unitig, last_unitig,
                   output_buffer, path_output, overlap_output, passed>>

\* No sequence is left: the buffers are flushed and the path files removed.
Finish_NoFlush ==
    /\ pc = "read"
    /\ seq_count = Len(input)
    /\ output_buffer' = EmptyFiles
    /\ path_output' = EmptyFiles
    /\ overlap_output' = EmptyFiles
    /\ pc' = "done"
    /\ UNCHANGED <<stderr, read_cdbg>>
    /\ UNCHANGED <<input, thread_count, mphf, Vertices, seq_count, task, pending,
                   wpc, read_state, first_unitig, second_unitig, last_unitig,
                   sink, passed>>

Finish ==
    /\ pc = "read"
    /\ seq_count = Len(input)
    /\ sink' = flush_buffers
    /\ output_buffer' = EmptyFiles
    /\ path_output' = EmptyFiles
    /\ overlap_output' = EmptyFiles
    /\ pc' = "done"
    /\ UNCHANGED <<stderr, read_cdbg>>
    /\ UNCHANGED <<input, thread_count, mphf, Vertices, seq_count, task, pending,
                   wpc, read_state, first_unitig, second_unitig, last_unitig,
                   passed>>

\* ------------------------------------------------- failures of the files
\* Whether a stream is in a failed state when the code tests it is for the
\* file system to say: each test below may find a failure or not.
OPEN_ERROR == "Error opening temporary path output files. Aborting."
WRITE_ERROR ==
    "Errors encountered while writing to the temporary path output files. Aborting."
REOPEN_ERROR == "Error opening temporary path output file. Aborting."
DELETE_ERROR == "Error deleting temporary files."

\* std::cerr << message; std::exit(EXIT_FAILURE).
Exit(message) ==
    /\ stderr' = Append(stderr, message)
    /\ pc' = "aborted"

\* reset_path_streams finds a path or overlap stream of the sequence failed
\* after opening it.
SpoolOpenFails ==
    /\ pc = "read"
    /\ seq_count < Len(input)
    /\ Len(input[seq_count + 1]) >= k
    /\ seq_count' = seq_count + 1
    /\ first_unitig' = ResetWitness(first_unitig)
    /\ second_unitig' = ResetWitness(second_unitig)
    /\ last_unitig' = ResetWitness(last_unitig)
    /\ path_output' = EmptyFiles
    /\ overlap_output' = EmptyFiles
    /\ Exit(OPEN_ERROR)
    /\ UNCHANGED read_cdbg
    /\ UNCHANGED <<input, thread_count, mphf, Vertices, task, pending, wpc,
                   read_state, output_buffer, sink, passed>>

\* write_gfa_path finds a path or overlap stream failed before it closes it.
\* The mutant reports the failure and writes the path all the same.
SpoolWriteFailed_GoesOn ==
    /\ pc = "path"
    /\ stderr' = Append(stderr, WRITE_ERROR)
    /\ sink' = IF is_valid(search_first_link.left_unitig)
               THEN Append(sink, PathLine(search_first_link))
               ELSE sink
    /\ pc' = "read"
    /\ UNCHANGED read_cdbg
    /\ UNCHANGED <<input, thread_count, mphf, Vertices, seq_count, task, pending,
                   wpc, read_state, first_unitig, second_unitig, last_unitig,
                   output_buffer, path_output, overlap_output, passed>>

SpoolWriteFailed ==
    /\ pc = "path"
    /\ Exit(WRITE_ERROR)
    /\ UNCHANGED read_cdbg
    /\ UNCHANGED <<input, thread_count, mphf, Vertices, seq_count, task, pending,
                   wpc, read_state, first_unitig, second_unitig, last_unitig,
                   output_buffer, path_output, overlap_output, sink, passed>>

\* What write_gfa_path has sent to the output stream when it exits in the
\* middle of the P line: a line without its end.
PathFragment == [type |-> "P, not ended", name |-> seq_count]

\* write_gfa_path cannot open a path or overlap file for reading: it exits
\* with the P line begun. The output stream is a local object, which exit
\* does not destroy: what it holds may have reached the file or not.
SpoolReopenFails ==
    /\ pc = "path"
    /\ is_valid(search_first_link.left_unitig)
    /\ \E written \in BOOLEAN :
          sink' = IF written THEN Append(sink, PathFragment) ELSE sink
    /\ Exit(REOPEN_ERROR)
    /\ UNCHANGED read_cdbg
    /\ UNCHANGED <<input, thread_count, mphf, Vertices, seq_count, task, pending,
                   wpc, read_state, first_unitig, second_unitig, last_unitig,
                   output_buffer, path_output, overlap_output, passed>>

\* No sequence is left, and remove_temp_files cannot delete a path file.
RemoveFails ==
    /\ pc = "read"
    /\ seq_count = Len(input)
    /\ sink' = flush_buffers
    /\ output_buffer' = EmptyFiles
    /\ stderr' = Append(stderr, DELETE_ERROR)
    /\ pc' = "done"
    /\ UNCHANGED read_cdbg
    /\ UNCHANGED <<input, thread_count, mphf, Vertices, seq_count, task, pending,
                   wpc, read_state, first_unitig, second_unitig, last_unitig,
                   path_output, overlap_output, passed>>

\* ------------------------------------------------------------ the inputs
SequencesUpTo(n) == UNION {[1..m -> Alphabet] : m \in 0..n}

\* The inputs of at most n sequences of at most total nucleotides together.
RECURSIVE InputsWithin(_, _)
InputsWithin(n, total) ==
    IF n = 0 THEN {<<>>}
    ELSE {<<>>} \cup
         UNION {{<<s>> \o rest : rest \in InputsWithin(n - 1, total - Len(s))} :
                    s \in SequencesUpTo(Min(MaxLen, total))}

\* One sequence of at most MaxLen nucleotides, or at most MaxSeqs sequences of
\* at most MaxTotalLen nucleotides together.
Inputs ==
    {<<s>> : s \in SequencesUpTo(MaxLen)} \cup InputsWithin(MaxSeqs, MaxTotalLen)

\* Read_CdBG before any run: no build-info file, no object.
NoInfo == [has_dcc |-> FALSE, dcc_extracted |-> FALSE]
Build_Params == [extract_cycles : BOOLEAN, dcc_opt : BOOLEAN]

NeverRun(dcc) ==
    /\ params = [extract_cycles |-> FALSE, dcc_opt |-> FALSE]
    /\ graph_has_dcc = dcc
    /\ json_file = [exists |-> FALSE, has_dcc |-> FALSE, dcc_extracted |-> FALSE]
    /\ dbg_info = NoInfo
    /\ hash_table_file = FALSE
    /\ rpc = "none"
    /\ phases = <<>>
    /\ extractions = [unitigs |-> 0, cycles |-> 0]

WriterInit ==
    /\ input \in Inputs
    /\ thread_count \in 1..MaxThreads
    /\ mphf = BuildMphf(input)
    /\ Vertices = BuildVertices(input)
    /\ seq_count = 0
    /\ pc = "read"
    /\ task = <<>>
    /\ pending = EmptyFiles
    /\ wpc = [t \in Threads |-> "done"]
    /\ read_state = <<>>
    /\ first_unitig = NoUnitigs
    /\ second_unitig = NoUnitigs
    /\ last_unitig = NoUnitigs
    /\ output_buffer = EmptyFiles
    /\ path_output = EmptyFiles
    /\ overlap_output = EmptyFiles
    /\ sink = <<GFA_HEADER>>
    /\ passed = EmptyFiles
    /\ stderr = <<>>

Init == WriterInit /\ NeverRun(FALSE)

Next ==
    \/ SkipShortSequence
    \/ BeginSequence
    \/ \E t \in Threads : WorkerLoad(t)
    \/ \E t \in Threads : WorkerUpdate(t)
    \/ JoinAndStitch
    \/ SingleWorkerReturns
    \/ WritePath
    \/ Finish

Spec == Init /\ [][Next]_vars

\* The run with its scheduling: the main thread goes on and every worker it
\* started is run until it returns, so a step that can be taken is taken
\* in the end. This is WF_vars(Next), written out with what ENABLED
\* <<Next>>_vars comes to: a step can be taken in every state but the last.
FairSpec == Spec /\ ([]<>(pc = "done") \/ []<><<Next>>_vars)

\* The run with the failures of the path files.
FaultyNext ==
    \/ Next
    \/ SpoolOpenFails
    \/ SpoolWriteFailed
    \/ SpoolReopenFails
    \/ RemoveFails

FaultySpec == Init /\ [][FaultyNext]_vars

\* ----------------------------------------------------------- Read_CdBG
\* Read_CdBG::is_constructed: file_exists(params.json_file_path()).
is_constructed == json_file.exists

\* dBG_Info: what it loads from the build-info file, what it answers, what
\* the extraction adds to it and what it dumps to the file.
LoadInfo ==
    IF json_file.exists
    THEN [has_dcc |-> json_file.has_dcc,
          dcc_extracted |-> json_file.dcc_extracted]
    ELSE NoInfo
has_dcc(info) == info.has_dcc
dcc_extracted(info) == info.dcc_extracted
add_unipaths_info(info, extractor_has_dcc) ==
    [has_dcc |-> extractor_has_dcc, dcc_extracted |-> FALSE]
add_DCC_info(info) == [info EXCEPT !.dcc_extracted = TRUE]
dump_info(info) ==
    [exists |-> TRUE, has_dcc |-> info.has_dcc,
     dcc_extracted |-> info.dcc_extracted]

\* Read_CdBG(params): the object of a run, with the info of the file.
NewRead_CdBG(p) ==
    /\ rpc = "none"
    /\ params' = p
    /\ dbg_info' = LoadInfo
    /\ phases' = <<>>
    /\ rpc' = "object"
    /\ UNCHANGED <<graph_has_dcc, json_file, hash_table_file, extractions>>
    /\ UNCHANGED writer

\* The test construct() starts with.
ConstructedEarlier_Never == FALSE

ConstructedEarlier ==
    is_constructed /\ (~has_dcc(dbg_info) \/ dcc_extracted(dbg_info))

\* construct() returns at once: the graph has been constructed earlier.
NothingToConstruct ==
    /\ rpc = "object"
    /\ ConstructedEarlier
    /\ rpc' = "none"
    /\ UNCHANGED <<params, graph_has_dcc, json_file, dbg_info, hash_table_file,
                   phases, extractions>>
    /\ UNCHANGED writer

\* The statements of construct() in their order: what follows a phase.
PhaseAfter_ExtractFirst(phase) ==
    CASE phase = "object" -> "edges"
      [] phase = "edges" -> "vertices"
      [] phase = "vertices" -> "mphf"
      [] phase = "mphf" -> "extract"
      [] phase = "extract" -> "dfa"
      [] phase = "dfa" -> "end"
      [] OTHER -> "none"

PhaseAfter(phase) ==
    CASE phase = "object" -> "edges"
      [] phase = "edges" -> "vertices"
      [] phase = "vertices" -> "mphf"
      [] phase = "mphf" -> "dfa"
      [] phase = "dfa" -> "extract"
      [] phase = "extract" -> "end"
      [] OTHER -> "none"

\* A phase of construct() that changes nothing but the work done.
RunPhase(phase) ==
    /\ PhaseAfter(rpc) = phase
    /\ rpc' = phase
    /\ phases' = Append(phases, phase)

\* The edges of the de Bruijn graph are enumerated.
EnumerateEdges ==
    /\ ~ConstructedEarlier
    /\ RunPhase("edges")
    /\ UNCHANGED <<params, graph_has_dcc, json_file, dbg_info, hash_table_file,
                   extractions>>
    /\ UNCHANGED writer

\* The vertices are enumerated off the edges.
EnumerateVertices ==
    /\ RunPhase("vertices")
    /\ UNCHANGED <<params, graph_has_dcc, json_file, dbg_info, hash_table_file,
                   extractions>>
    /\ UNCHANGED writer

\* The hash table is constructed over the vertices.
ConstructHashTable ==
    /\ RunPhase("mphf")
    /\ UNCHANGED <<params, graph_has_dcc, json_file, dbg_info, hash_table_file,
                   extractions>>
    /\ UNCHANGED writer

\* compute_DFA_states is called: the states of the vertices are being
\* computed.
compute_DFA_states ==
    /\ PhaseAfter(rpc) = "dfa"
    /\ rpc' = "computing"
    /\ UNCHANGED <<params, graph_has_dcc, json_file, dbg_info, hash_table_file,
                   phases, extractions>>
    /\ UNCHANGED writer

\* compute_DFA_states returns with the states computed; the hash table is
\* saved unless cycles are to be extracted or dcc_opt is set.
DFAStatesComputed ==
    /\ rpc = "computing"
    /\ rpc' = "dfa"
    /\ phases' = Append(phases, "dfa")
    /\ hash_table_file' = IF ~params.extract_cycles /\ ~params.dcc_opt
                          THEN TRUE ELSE hash_table_file
    /\ UNCHANGED <<params, graph_has_dcc, json_file, dbg_info, extractions>>
    /\ UNCHANGED writer

\* extract_maximal_unitigs: whether it runs the extraction of the maximal
\* unitigs, and of the detached chordless cycles.
RunsUnitigExtraction == ~is_constructed

RunsCycleExtraction ==
    IF ~is_constructed
    THEN graph_has_dcc /\ params.extract_cycles
    ELSE /\ params.extract_cycles
         /\ has_dcc(dbg_info)
         /\ ~dcc_extracted(dbg_info)

\* extract_maximal_unitigs runs the extraction of the maximal unitigs.
ExtractUnitigs ==
    /\ PhaseAfter(rpc) = "extract"
    /\ RunsUnitigExtraction
    /\ rpc' = "unitigs"
    /\ phases' = Append(phases, "unitigs")
    /\ extractions' = [extractions EXCEPT !.unitigs = @ + 1]
    /\ dbg_info' = add_unipaths_info(dbg_info, graph_has_dcc)
    /\ UNCHANGED <<params, graph_has_dcc, json_file, hash_table_file>>
    /\ UNCHANGED writer

\* extract_maximal_unitigs is past the extraction of the maximal unitigs, or
\* has none to run.
AtCycles ==
    \/ rpc = "unitigs"
    \/ PhaseAfter(rpc) = "extract" /\ ~RunsUnitigExtraction

\* extract_maximal_unitigs runs the extraction of the detached cycles.
ExtractCycles ==
    /\ AtCycles
    /\ RunsCycleExtraction
    /\ rpc' = "extract"
    /\ phases' = Append(phases, "cycles")
    /\ extractions' = [extractions EXCEPT !.cycles = @ + 1]
    /\ dbg_info' = add_DCC_info(dbg_info)
    /\ UNCHANGED <<params, graph_has_dcc, json_file, hash_table_file>>
    /\ UNCHANGED writer

\* extract_maximal_unitigs returns without extracting the detached cycles;
\* it saves the hash table if cycles were found and dcc_opt is set.
ExtractNoCycles ==
    /\ AtCycles
    /\ ~RunsCycleExtraction
    /\ rpc' = "extract"
    /\ hash_table_file' =
          IF ~is_constructed /\ graph_has_dcc /\ params.dcc_opt
          THEN TRUE ELSE hash_table_file
    /\ UNCHANGED <<params, graph_has_dcc, json_file, dbg_info, phases,
                   extractions>>
    /\ UNCHANGED writer

\* The end of construct(): the saved hash table is removed if no cycles are
\* left to extract, and the info is dumped to the build-info file.
FinishConstruct ==
    /\ PhaseAfter(rpc) = "end"
    /\ hash_table_file' =
          IF ~has_dcc(dbg_info) \/ dcc_extracted(dbg_info)
          THEN FALSE ELSE hash_table_file
    /\ json_file' = dump_info(dbg_info)
    /\ rpc' = "none"
    /\ UNCHANGED <<params, graph_has_dcc, dbg_info, phases, extractions>>
    /\ UNCHANGED writer

\* Runs of Read_CdBG::construct, one after the other, on a graph with or
\* without detached chordless cycles.
ReadInit ==
    /\ input = <<>>
    /\ thread_count = 1
    /\ WriterInit
    /\ \E dcc \in BOOLEAN : NeverRun(dcc)

ReadNext ==
    \/ \E p \in Build_Params : NewRead_CdBG(p)
    \/ NothingToConstruct
    \/ EnumerateEdges
    \/ EnumerateVertices
    \/ ConstructHashTable
    \/ compute_DFA_states
    \/ DFAStatesComputed
    \/ ExtractUnitigs
    \/ ExtractCycles
    \/ ExtractNoCycles
    \/ FinishConstruct

ReadSpec == ReadInit /\ [][ReadNext]_vars

\* ------------------------------------------------------------ references
\* Every line written so far: the output file, then what the threads buffer.
AllLines == sink \o Concat(output_buffer, 0)

\* The number of S lines written for a bucket.
SegmentCount(b) ==
    Cardinality({i \in DOMAIN AllLines :
                    AllLines[i].type = "S" /\ AllLines[i].name = b})

\* <<s, e>> is a maximal unitig occurrence of seq: a stretch of valid k-mers
\* that starts and ends a unipath and holds no start or end inside.
IsMaximalUnitig(seq, s, e) ==
    /\ \A j \in s..e : IsValidKmer(seq, j)
    /\ NoLeftNeighbor(seq, s) \/ StartsAt(seq, s)
    /\ NoRightNeighbor(seq, e) \/ EndsAt(seq, e)
    /\ \A j \in s..(e - 1) : ~EndsAt(seq, j)
    /\ \A j \in (s + 1)..e : ~StartsAt(seq, j)

MaximalUnitigs(seq) ==
    {u \in (0..(Len(seq) - k)) \X (0..(Len(seq) - k)) :
        u[1] <= u[2] /\ IsMaximalUnitig(seq, u[1], u[2])}

\* A set of index pairs as a sequence in ascending order of the first index.
RECURSIVE Ascending(_)
Ascending(S) ==
    IF S = {} THEN <<>>
    ELSE LET m == CHOOSE x \in S : \A y \in S : x[1] <= y[1]
         IN  <<m>> \o Ascending(S \ {m})

\* The unitigs of a single-threaded left-to-right traversal of seq.
Tiling(seq) == WorkerUnitigs(seq, 0, Len(seq) - k)

PathLines == {i \in DOMAIN sink : sink[i].type = "P"}

\* The fields of an S line that are in the file.
SegmentFields(l) ==
    [name |-> l.name, segment |-> l.segment, LN |-> l.LN, KC |-> l.KC]

\* The S lines of a single-threaded run: sequence by sequence and left to
\* right, one for the first occurrence of every unitig id. ids are the ids
\* output so far.
RECURSIVE SequentialOne(_, _, _, _)
SequentialOne(seq, tiling, j, res) ==
    IF j > Len(tiling) THEN res
    ELSE IF tiling[j].unitig_id \in res.ids
    THEN SequentialOne(seq, tiling, j + 1, res)
    ELSE SequentialOne(seq, tiling, j + 1,
            [ids |-> res.ids \cup {tiling[j].unitig_id},
             lines |-> res.lines \cup {SegmentFields(SegmentLine(seq, tiling[j]))},
             firsts |-> res.firsts \cup
                        {<<tiling[j].unitig_id, tiling[j].start_kmer_idx>>}])

RECURSIVE SequentialRun(_, _)
SequentialRun(n, res) ==
    IF n > Len(input) THEN res
    ELSE IF Len(input[n]) < k THEN SequentialRun(n + 1, res)
    ELSE SequentialRun(n + 1, SequentialOne(input[n], Tiling(input[n]), 1, res))

SequentialSegments == SequentialRun(1, [ids |-> {}, lines |-> {}, firsts |-> {}])

SegmentLines == {i \in DOMAIN sink : sink[i].type = "S"}
LinkLines == {i \in DOMAIN AllLines : AllLines[i].type = "L"}

\* The canonical k-mers a nucleotide string holds.
CanonicalKmersOf(text) == {canonical(text, i) : i \in 0..(Len(text) - k)}

\* The sequences whose workers are joined and whose links are stitched, and
\* those whose path is written as well.
Stitched(n) ==
    n < seq_count \/ (n = seq_count /\ pc \in {"path", "read", "done"})
PathWritten(n) ==
    n < seq_count \/ (n = seq_count /\ pc \in {"read", "done"})

\* The link between two consecutive unitigs of a tiling, as the fields an
\* L line has besides its sequence.
LinkFields(l) ==
    [from |-> l.from, to |-> l.to, overlap |-> l.overlap,
     left |-> l.left, right |-> l.right]
TilingLinks(tiling) ==
    {[from |-> SegmentName(tiling[j]), to |-> SegmentName(tiling[j + 1]),
      overlap |-> IF tiling[j + 1].start_kmer_idx = tiling[j].end_kmer_idx + 1
                  THEN k - 1 ELSE 0,
      left |-> tiling[j], right |-> tiling[j + 1]] : j \in 1..(Len(tiling) - 1)}

\* ---------------------------------------------------------------- claims
\* C1: under every interleaving of the workers, within a sequence and across
\* the sequences of a run, at most one S line is written per unitig id, and
\* one is written exactly when the slot of the unitig went from not outputted
\* to outputted: only the thread whose update made that transition writes it.
C1_OneSegmentPerUnitig ==
    \A b \in DOMAIN Vertices :
        SegmentCount(b) = IF Vertices[b].outputted THEN 1 ELSE 0

\* C1 witness: a worker read its slot as not outputted, another thread then
\* won the slot and wrote the segment, and the worker is at its update,
\* which will fail.
C1_Witness ==
    \E t \in Threads :
        /\ pc = "workers"
        /\ wpc[t] = "update"
        /\ ~read_state[t].outputted
        /\ Vertices[Head(pending[t]).unitig_id].outputted
        /\ SegmentCount(Head(pending[t]).unitig_id) = 1

\* C2: while a sequence is processed, every worker is handed exactly the
\* maximal unitig occurrences that start inside its range, in ascending
\* order (so every occurrence goes to exactly one worker, and one that starts
\* before the range of a worker is not output by it), and the walker looks
\* past its right end only along a unitig that started inside the range,
\* stopping at the end of that unitig.
C2_UnitigByTheWorkerOfItsStart ==
    pc \in {"workers", "path"} =>
        \A t \in Threads :
            LET got == passed[t] \o pending[t]
                mine == IF t \in Workers
                        THEN Ascending({u \in MaximalUnitigs(CurrentSeq) :
                                          /\ task[t].left_end <= u[1]
                                          /\ u[1] <= task[t].right_end})
                        ELSE <<>>
            IN  /\ Len(got) = Len(mine)
                /\ \A j \in 1..Len(got) :
                      /\ got[j].start_kmer_idx = mine[j][1]
                      /\ got[j].end_kmer_idx = mine[j][2]
                /\ t \in Workers =>
                      LET w == output_gfa_off_substring(
                                   CurrentSeq, task[t].left_end, task[t].right_end)
                      IN  w.last > task[t].right_end =>
                            /\ w.out # <<>>
                            /\ w.out[Len(w.out)][1] <= task[t].right_end
                            /\ w.out[Len(w.out)][2] = w.last

\* C2 witness: a worker has output a unitig that ends past its right end,
\* in the range of the next worker, which has output a unitig of its own.
C2_Witness ==
    /\ pc = "path"
    /\ \E t \in Workers :
          /\ t + 1 \in Workers
          /\ passed[t] # <<>>
          /\ passed[t][Len(passed[t])].end_kmer_idx > task[t].right_end
          /\ passed[t + 1] # <<>>

\* C3: the SegmentNames of every P line are the unitigs of the single-threaded
\* left-to-right traversal of its sequence, in that order, each once.
C3_PathIsTheTiling ==
    \A i \in PathLines :
        LET tiling == Tiling(input[sink[i].name])
        IN  sink[i].segments = [j \in 1..Len(tiling) |-> SegmentName(tiling[j])]

\* C3 witness: the P line of a sequence of four or more unitigs that three
\* threads worked on, two of which at least output unitigs.
C3_Witness ==
    /\ pc = "read"
    /\ thread_count = 3
    /\ Cardinality({t \in Threads : is_valid(first_unitig[t])}) >= 2
    /\ \E t \in Threads : is_valid(second_unitig[t])
    /\ \E i \in PathLines :
          sink[i].name = seq_count /\ Len(sink[i].segments) >= 4

\* C4: whatever the thread count and the interleaving, the S lines of a
\* complete run are those of the single-threaded run over the same input:
\* the same ids with the same segment text, LN and KC, each once.
C4_SegmentsOfTheSequentialRun ==
    pc = "done" =>
        /\ {SegmentFields(sink[i]) : i \in SegmentLines} = SequentialSegments.lines
        /\ Cardinality(SegmentLines) = Cardinality(SequentialSegments.lines)

\* C4 witness: a complete run of several threads in which the S line of a
\* unitig was written for another occurrence than the single-threaded run
\* writes it for.
C4_Witness ==
    /\ pc = "done"
    /\ thread_count > 1
    /\ \E i \in SegmentLines :
          <<sink[i].name, sink[i].at>> \notin SequentialSegments.firsts

\* C5: a sequence whose path is due has exactly one P line if it holds a
\* valid k-mer and none otherwise (shorter than k, or placeholders all over),
\* the P line of the n-th sequence of the input, skipped ones counted, is
\* named n, and no other P line is in the file.
C5_OnePathPerSequence ==
    /\ \A n \in 1..Len(input) :
          Cardinality({i \in PathLines : sink[i].name = n}) =
              IF PathWritten(n) /\ KmerPositions(input[n]) # {} THEN 1 ELSE 0
    /\ \A i \in PathLines :
          /\ sink[i].name \in 1..Len(input)
          /\ sink[i].segments[1] = SegmentName(Tiling(input[sink[i].name])[1])

\* C5 witness: the first sequence was skipped as shorter than k, and the
\* second one has its P line, named 2.
C5_Witness ==
    /\ pc = "done"
    /\ Len(input) = 2
    /\ Len(input[1]) < k
    /\ \E i \in PathLines : sink[i].name = 2

\* C6: after a complete run every canonical k-mer of the input is held by
\* the segment of exactly one S line.
C6_EveryKmerInOneSegment ==
    pc = "done" =>
        \A v \in VertexSet(input) :
            Cardinality({i \in SegmentLines :
                            v \in CanonicalKmersOf(sink[i].segment)}) = 1

\* C6 witness: a complete run of several threads with a segment of several
\* k-mers among three or more segments.
C6_Witness ==
    /\ pc = "done"
    /\ thread_count > 1
    /\ Cardinality(SegmentLines) >= 3
    /\ \E i \in SegmentLines : sink[i].KC >= 2

\* C7: once the workers of a sequence are joined and stitched, the L lines
\* written for it are exactly the links between the consecutive unitigs of
\* its left-to-right tiling, each once: N - 1 lines for N unitigs, whatever
\* the thread count.
C7_LinksOfTheTiling ==
    \A n \in 1..seq_count :
        (Stitched(n) /\ Len(input[n]) >= k) =>
            LET links == {i \in LinkLines : AllLines[i].of_seq = n}
                tiling == Tiling(input[n])
            IN  /\ {LinkFields(AllLines[i]) : i \in links} = TilingLinks(tiling)
                /\ Cardinality(links) =
                      IF Len(tiling) = 0 THEN 0 ELSE Len(tiling) - 1

\* C7 witness: three workers are stitched, the middle one of which output
\* no unitig while the other two did.
C7_Witness ==
    /\ pc = "path"
    /\ thread_count = 3
    /\ is_valid(first_unitig[0])
    /\ ~is_valid(first_unitig[1])
    /\ is_valid(first_unitig[2])
    /\ \E i \in LinkLines :
          /\ AllLines[i].left = last_unitig[0]
          /\ AllLines[i].right = first_unitig[2]

\* C8: every L line links a unitig to one that starts right after it, with
\* an overlap of k - 1, or to one that starts further on with a placeholder
\* between the two, with an overlap of 0.
C8_LinksAreAdjacentOrAcrossAGap ==
    \A i \in LinkLines :
        LET l == AllLines[i]
            seq == input[l.of_seq]
        IN  \/ /\ l.right.start_kmer_idx = l.left.end_kmer_idx + 1
               /\ l.overlap = k - 1
            \/ /\ l.right.start_kmer_idx > l.left.end_kmer_idx + 1
               /\ l.overlap = 0
               /\ \E p \in (l.left.end_kmer_idx + k)..(l.right.start_kmer_idx - 1) :
                     seq[p + 1] = PLACEHOLDER_NUCLEOTIDE

\* C8 witness: the stitcher linked the unitigs of two threads across a
\* placeholder, with an overlap of 0.
C8_Witness ==
    /\ pc = "path"
    /\ \E i \in LinkLines : \E t1, t2 \in Threads :
          /\ t1 # t2
          /\ AllLines[i].left = last_unitig[t1]
          /\ AllLines[i].right = first_unitig[t2]
          /\ AllLines[i].right.start_kmer_idx > AllLines[i].left.end_kmer_idx + 1
          /\ AllLines[i].overlap = 0

\* C9: the Overlaps of a P line are * for a path of one segment, and for a
\* path of N >= 2 segments N - 1 entries, the i-th (k-1)M if the i-th and the
\* next unitig of the tiling are adjacent and 0M otherwise.
C9_OverlapsOfThePath ==
    \A i \in PathLines :
        LET tiling == Tiling(input[sink[i].name])
            N == Len(sink[i].segments)
        IN  /\ N = Len(tiling)
            /\ sink[i].overlaps =
                  IF N = 1 THEN <<NoCigar>>
                  ELSE [j \in 1..(N - 1) |->
                          Cigar(IF tiling[j + 1].start_kmer_idx =
                                      tiling[j].end_kmer_idx + 1
                                THEN k - 1 ELSE 0)]

\* C9, what write_gfa_path writes instead: the P line of a sequence of
\* exactly two unitigs with a placeholder between them has 0M twice, the
\* overlap of the first link once from search_first_link and once more from
\* the overlap file.
C9_FirstOverlapTwice ==
    \E i \in PathLines :
        /\ Len(sink[i].segments) = 2
        /\ sink[i].overlaps = <<Cigar(0), Cigar(0)>>

\* C10: the outputted flag of a slot is never set back: no step of the
\* walkers, the stitcher or the main thread, the reset at the start of a
\* sequence included, takes a slot from outputted to not outputted.
C10_OutputtedIsMonotonic ==
    [][\A b \in DOMAIN Vertices :
          Vertices[b].outputted => Vertices'[b].outputted]_vars

\* C10 witness: the workers of a second sequence run on a table that holds
\* an outputted slot.
C10_Witness ==
    /\ pc = "workers"
    /\ seq_count = 2
    /\ Len(input[1]) >= k
    /\ \E b \in DOMAIN Vertices : Vertices[b].outputted

\* The unitig a worker is at: the next one its walker passes to
\* output_unitig_gfa.
UnitigAtHand(t) == Head(pending[t])

\* The slots of the table a step changes.
ChangedSlots == {b \in DOMAIN Vertices : Vertices'[b] # Vertices[b]}

\* C11: a step of output_unitig_gfa changes at most one slot of the hash
\* table, the slot of the smaller of the canonical flanking k-mers of the
\* unitig at hand, and of it only the outputted flag; no step changes the
\* vertex class of a slot, and no other step changes the table at all.
C11_OnlyTheOutputtedBitOfOneSlot ==
    [][/\ DOMAIN Vertices' = DOMAIN Vertices
       /\ Cardinality(ChangedSlots) <= 1
       /\ \A b \in ChangedSlots :
             /\ Vertices'[b].vertex_class = Vertices[b].vertex_class
             /\ pc = "workers"
             /\ \E t \in Threads :
                   /\ wpc[t] = "update"
                   /\ passed'[t] = Append(passed[t], UnitigAtHand(t))
                   /\ LET u == UnitigAtHand(t)
                          a == canonical(CurrentSeq, u.start_kmer_idx)
                          z == canonical(CurrentSeq, u.end_kmer_idx)
                      IN  b = mphf[IF a < z THEN a ELSE z]]_vars

\* C11 witness: a worker output a unitig whose end k-mer has the smaller
\* canonical form, the slot of which is outputted while another is not.
C11_Witness ==
    /\ pc = "workers"
    /\ \E t \in Threads : \E j \in DOMAIN passed[t] :
          LET u == passed[t][j]
          IN  /\ canonical(CurrentSeq, u.end_kmer_idx)
                    < canonical(CurrentSeq, u.start_kmer_idx)
              /\ Vertices[mphf[canonical(CurrentSeq, u.end_kmer_idx)]].outputted
              /\ ~Vertices[mphf[canonical(CurrentSeq, u.start_kmer_idx)]].outputted

\* The nucleotides of the sequence at hand a unitig spans.
Spelling(u) == SubSeq(CurrentSeq, u.start_kmer_idx + 1, u.end_kmer_idx + k)

\* The Oriented_Unitig output_unitig_gfa makes of a unitig when its reverse
\* complement is walked from end to end.
WalkedBackwards(u) ==
    current_unitig(ReverseComplement(Spelling(u)), 0,
                   u.end_kmer_idx - u.start_kmer_idx)

\* The unitigs the workers of the sequence at hand have output so far.
PassedUnitigs ==
    IF pc \in {"workers", "path"}
    THEN UNION {{passed[t][j] : j \in DOMAIN passed[t]} : t \in Threads}
    ELSE {}

\* C12: the id of a unitig walked from a to b is the id it gets when its
\* reverse complement is walked, from revcomp(b) to revcomp(a): both are the
\* bucket of the smaller of canonical(a) and canonical(b). Occurrences that
\* spell the same unitig, forwards or backwards, in whatever thread, have the
\* same id.
C12_IdWhateverTheDirection ==
    /\ \A u \in PassedUnitigs :
          LET a == canonical(CurrentSeq, u.start_kmer_idx)
              z == canonical(CurrentSeq, u.end_kmer_idx)
          IN  /\ u.unitig_id = mphf[IF a < z THEN a ELSE z]
              /\ WalkedBackwards(u).unitig_id = u.unitig_id
    /\ \A u, v \in PassedUnitigs :
          (Spelling(v) = Spelling(u) \/ Spelling(v) = ReverseComplement(Spelling(u)))
              => v.unitig_id = u.unitig_id

\* C12 witness: two workers output the same unitig, one in its forward and
\* one in its backward spelling, while a unitig of several k-mers with
\* different flanking k-mers is output too.
C12_Witness ==
    /\ pc = "workers"
    /\ \E t1, t2 \in Threads :
        /\ t1 # t2
        /\ \E i \in DOMAIN passed[t1] : \E j \in DOMAIN passed[t2] :
              /\ Spelling(passed[t2][j]) = ReverseComplement(Spelling(passed[t1][i]))
              /\ Spelling(passed[t2][j]) # Spelling(passed[t1][i])
    /\ \E u \in PassedUnitigs :
          canonical(CurrentSeq, u.start_kmer_idx) # canonical(CurrentSeq, u.end_kmer_idx)

\* The segment text write_gfa_segment writes for a unitig of the sequence at
\* hand, and the one it writes when the reverse complement of the unitig is
\* walked.
TextOf(u) ==
    SegmentText(CurrentSeq, u.start_kmer_idx, u.end_kmer_idx, u.dir)
TextWalkedBackwards(u) ==
    SegmentText(ReverseComplement(Spelling(u)), 0,
                u.end_kmer_idx - u.start_kmer_idx, WalkedBackwards(u).dir)

\* C13: a unitig is FWD if and only if the k-mer it starts with is smaller
\* than the reverse complement of the k-mer it ends with; the segment text
\* written for it (its range if FWD, the reverse complement if BWD) is the
\* same whether it is met in its forward or in its backward spelling, and the
\* two spellings get opposite signs unless the unitig is its own reverse
\* complement.
C13_OneTextOppositeSigns ==
    /\ \A u \in PassedUnitigs :
          /\ (u.dir = FWD) <=> (kmer_t(CurrentSeq, u.start_kmer_idx)
                                   < rev_compl(CurrentSeq, u.end_kmer_idx))
          /\ u.dir \in {FWD, BWD}
          /\ TextOf(u) = (IF u.dir = FWD THEN Spelling(u)
                          ELSE ReverseComplement(Spelling(u)))
          /\ TextWalkedBackwards(u) = TextOf(u)
          /\ (WalkedBackwards(u).dir # u.dir)
                <=> (Spelling(u) # ReverseComplement(Spelling(u)))
    /\ \A u, v \in PassedUnitigs :
          /\ Spelling(v) = Spelling(u) => (TextOf(v) = TextOf(u) /\ v.dir = u.dir)
          /\ (Spelling(v) = ReverseComplement(Spelling(u)) /\ Spelling(v) # Spelling(u))
                => (TextOf(v) = TextOf(u) /\ v.dir # u.dir)

\* C13 witness: the workers output the same unitig in its forward and in its
\* backward spelling, and a unitig that is its own reverse complement.
C13_Witness ==
    /\ pc = "workers"
    /\ \E u, v \in PassedUnitigs :
          /\ Spelling(v) = ReverseComplement(Spelling(u))
          /\ Spelling(v) # Spelling(u)
    /\ \E u \in PassedUnitigs : Spelling(u) = ReverseComplement(Spelling(u))

\* What belongs to thread t: its witnesses, its buffer and its path files.
SlotsOf(t) ==
    <<first_unitig[t], second_unitig[t], last_unitig[t],
      output_buffer[t], path_output[t], overlap_output[t]>>

\* Worker t is inside output_gfa_off_substring: started and not yet returned.
Running(t) == pc = "workers" /\ wpc[t] # "done"

\* C14: while workers of a sequence run, a step changes the witnesses, the
\* buffer and the path files of one thread at most, and it is the step of
\* the worker of that thread; the stitcher and the main thread change them
\* only when no worker of the sequence is running any more.
C14_SlotsOfAThreadAreItsOwn ==
    [][\A t \in Threads :
          SlotsOf(t)' # SlotsOf(t) =>
              \/ /\ Running(t)
                 /\ passed'[t] = Append(passed[t], UnitigAtHand(t))
                 /\ \A o \in Threads \ {t} :
                       /\ SlotsOf(o)' = SlotsOf(o)
                       /\ passed'[o] = passed[o]
                       /\ wpc'[o] = wpc[o]
              \/ \A o \in Threads : ~Running(o)]_vars

\* C14 witness: a worker has written its witnesses and its path file while
\* another worker of the sequence, with witnesses of its own, is running.
C14_Witness ==
    \E t, o \in Threads :
        /\ t # o
        /\ Running(o)
        /\ is_valid(last_unitig[o])
        /\ path_output[t] # <<>>

\* C15: when the P line of a sequence is in the file, every S and L line
\* written for that sequence is in the file before it: none is still in a
\* buffer, to be written after the P line.
C15_SegmentsAndLinksBeforeThePath ==
    \A i \in PathLines :
        \A j \in DOMAIN AllLines :
            (AllLines[j].type \in {"S", "L"} /\ AllLines[j].of_seq = sink[i].name)
                => j < i

\* C15, what the run does instead: the file is complete, and an S line of a
\* sequence stands after the P line of that sequence, written by the final
\* flush_buffers.
C15_SegmentAfterItsPath ==
    /\ pc = "done"
    /\ \E i \in PathLines : \E j \in SegmentLines :
          /\ sink[j].of_seq = sink[i].name
          /\ j > i

\* The j-th unitig worker t has output for the sequence at hand, the invalid
\* unitig if it has output fewer.
Emitted(t, j) == IF j \in DOMAIN passed[t] THEN passed[t][j] ELSE InvalidUnitig

RECURSIVE RunningLeft(_)
RunningLeft(t_id) ==
    IF t_id = 0 THEN InvalidUnitig
    ELSE IF ~is_valid(RunningLeft(t_id - 1)) THEN last_unitig[t_id - 1]
    ELSE IF is_valid(first_unitig[t_id - 1]) THEN last_unitig[t_id - 1]
    ELSE RunningLeft(t_id - 1)

\* C17: for every thread, first is valid if and only if last is, and second
\* is valid only if first is. So search_first_link finds no right unitig
\* without a left one, its left unitig is the first unitig of the first
\* thread that has any, and write_inter_thread_links, once it has a valid
\* unitig to its left, never replaces it by an invalid one.
C17_WitnessesAreConsistent ==
    /\ \A t \in Threads :
          /\ is_valid(first_unitig[t]) <=> is_valid(last_unitig[t])
          /\ is_valid(second_unitig[t]) => is_valid(first_unitig[t])
    /\ is_valid(search_first_link.right_unitig)
          => is_valid(search_first_link.left_unitig)
    /\ \A t \in Threads :
          (is_valid(first_unitig[t]) /\ \A o \in 0..(t - 1) : ~is_valid(first_unitig[o]))
              => search_first_link.left_unitig = first_unitig[t]
    /\ \A t \in 1..thread_count :
          is_valid(RunningLeft(t - 1)) => is_valid(RunningLeft(t))

\* C17 witness: the stitcher is about to run over a thread without unitigs
\* between two threads with unitigs, the first of which has one unitig only:
\* the right unitig of the first link is the first unitig of the third.
C17_Witness ==
    /\ pc = "workers"
    /\ AllWorkersDone
    /\ thread_count = 3
    /\ is_valid(first_unitig[0])
    /\ ~is_valid(second_unitig[0])
    /\ ~is_valid(last_unitig[1])
    /\ is_valid(first_unitig[2])
    /\ search_first_link.right_unitig = first_unitig[2]

\* The number of k-mer indices of the sequence at hand, and the number of
\* indices of the range of a worker.
IndexCount == Len(CurrentSeq) - k + 1
RangeSize(t) == task[t].right_end - task[t].left_end + 1

\* C18: the ranges handed to the workers of a sequence of length L >= k are
\* those of threads 0 .. n - 1 for some n, non-empty, each starting right
\* after the one before, the first at 0 and the last ending at L - k: they
\* are disjoint, ascending and cover [0, L - k]. When the computed range size
\* is 0 there is one worker, thread 0, with the whole range.
C18_RangesPartitionTheIndices ==
    pc = "workers" =>
        /\ DOMAIN task \in {{0}, Threads}
        /\ task[0].left_end = 0
        /\ \A t \in DOMAIN task :
              /\ task[t].left_end <= task[t].right_end
              /\ (t + 1) \in DOMAIN task
                    => task[t + 1].left_end = task[t].right_end + 1
              /\ (t + 1) \notin DOMAIN task
                    => task[t].right_end = Len(CurrentSeq) - k
        /\ \A i \in 0..(Len(CurrentSeq) - k) :
              Cardinality({t \in DOMAIN task :
                              task[t].left_end <= i /\ i <= task[t].right_end}) = 1
        /\ (IndexCount \div thread_count = 0)
              => task = (0 :> [left_end |-> 0, right_end |-> Len(CurrentSeq) - k])
        /\ (IndexCount \div thread_count # 0) => DOMAIN task = Threads

\* C18 witness: three workers with ranges of different sizes, the last one
\* larger than the others.
C18_Witness ==
    /\ pc = "workers"
    /\ DOMAIN task = 0..2
    /\ RangeSize(2) > RangeSize(1)

\* C19 as stated: every range but the last has ceil((L-k+1)/T) indices.
C19_RangeSizeIsTheCeiling ==
    pc = "workers" =>
        \A t \in DOMAIN task :
            (t + 1) \in DOMAIN task
                => RangeSize(t) = (IndexCount + thread_count - 1) \div thread_count

\* C19 amended: every range but the last has floor((L-k+1)/T) indices, and
\* the last has these and the remainder of the division; when the floor is 0
\* the only range is the whole of [0, L-k].
C19_RangeSizeIsTheFloor ==
    pc = "workers" =>
        \A t \in DOMAIN task :
            /\ (t + 1) \in DOMAIN task
                  => RangeSize(t) = IndexCount \div thread_count
            /\ ((t + 1) \notin DOMAIN task /\ t > 0)
                  => RangeSize(t) =
                        (IndexCount \div thread_count) + (IndexCount % thread_count)
            /\ ((t + 1) \notin DOMAIN task /\ t = 0) => RangeSize(t) = IndexCount

\* C19 witness: several workers for a number of indices the thread count
\* does not divide.
C19_Witness ==
    /\ pc = "workers"
    /\ Cardinality(DOMAIN task) > 1
    /\ IndexCount % thread_count # 0
    /\ RangeSize(0) < (IndexCount + thread_count - 1) \div thread_count

\* The number of lines equal to line among those written so far.
Copies(line) == Cardinality({i \in DOMAIN AllLines : AllLines[i] = line})
\* The same after a step.
CopiesAfter(line) == Cardinality({i \in DOMAIN AllLines' : AllLines'[i] = line})

\* C20: a worker that finds its unitig outputted already, or whose update of
\* the slot fails, goes on without trying again and without stopping the
\* run; the step in which it is done with the unitig writes an S line only
\* if its update succeeded, and either way makes the unitig its last (and
\* first or second) one, writes the L line from its previous unitig and
\* appends the path and overlap entries.
C20_NoSegmentButLinkAndPath ==
    [][\A t \in Threads :
          /\ (Running(t) /\ wpc[t] = "load"
                /\ is_outputted(Vertices[UnitigAtHand(t).unitig_id]))
                => wpc'[t] # "update"
          /\ (Running(t) /\ wpc[t] = "update")
                => \/ passed'[t] = Append(passed[t], UnitigAtHand(t))
                   \/ (passed'[t] = passed[t] /\ wpc'[t] = "update")
          /\ (Running(t) /\ passed'[t] # passed[t]) =>
                LET u == UnitigAtHand(t)
                    prev == last_unitig[t]
                    won == /\ wpc[t] = "update"
                           /\ Vertices[u.unitig_id] = read_state[t]
                IN  /\ pc' = "workers"
                    /\ passed'[t] = Append(passed[t], u)
                    /\ CopiesAfter(SegmentLine(CurrentSeq, u)) =
                          Copies(SegmentLine(CurrentSeq, u)) + (IF won THEN 1 ELSE 0)
                    /\ last_unitig'[t] = u
                    /\ first_unitig'[t] = (IF is_valid(first_unitig[t])
                                           THEN first_unitig[t] ELSE u)
                    /\ second_unitig'[t] =
                          (IF is_valid(first_unitig[t]) /\ ~is_valid(second_unitig[t])
                           THEN u ELSE second_unitig[t])
                    /\ is_valid(prev) =>
                          /\ CopiesAfter(LinkLine(prev, u)) = Copies(LinkLine(prev, u)) + 1
                          /\ path_output'[t] = Append(path_output[t], SegmentName(u))
                          /\ overlap_output'[t] =
                                Append(overlap_output[t],
                                       [len |-> IF u.start_kmer_idx = prev.end_kmer_idx + 1
                                                THEN k - 1 ELSE 0,
                                        op |-> "M"])]_vars

\* C20 witness: a worker read the slot of its unitig as not outputted and
\* wrote no S line for it, another thread having written it in between: its
\* update failed; the unitig is its last one, reached by a link, and in its
\* path file.
C20_Witness ==
    /\ pc = "workers"
    /\ \E t \in Threads :
          /\ wpc[t] \in {"load", "done"}
          /\ Len(passed[t]) >= 2
          /\ t \in DOMAIN read_state
          /\ ~is_outputted(read_state[t])
          /\ LET u == passed[t][Len(passed[t])]
             IN  /\ Copies(SegmentLine(CurrentSeq, u)) = 0
                 /\ SegmentCount(u.unitig_id) = 1
                 /\ last_unitig[t] = u
                 /\ Copies(LinkLine(passed[t][Len(passed[t]) - 1], u)) = 1
                 /\ path_output[t][Len(path_output[t])] = SegmentName(u)

\* ------------------------------------------------------------------ C21
\* The index of the last k-mer of the placeholder-free run that holds the
\* valid k-mer at idx.
RunEnd(seq, idx) ==
    CHOOSE j \in idx..(Len(seq) - k) :
        /\ \A m \in idx..j : IsValidKmer(seq, m)
        /\ (j = Len(seq) - k \/ ~IsValidKmer(seq, j + 1))

\* The calls of the walker on a sequence: a right end within [0, L - k] and
\* a valid start index no greater than it.
WalkerCalls(seq) ==
    {c \in (0..(Len(seq) - k)) \X (0..(Len(seq) - k)) :
        c[2] <= c[1] /\ IsValidKmer(seq, c[2])}

\* What a call of the walker on seq with the right end and the valid start
\* index of c keeps to: it returns an index greater than the start; the last
\* k-mer it looks at is no later than the last k-mer of the placeholder-free
\* run of the start, so it reads no position beyond seq_len.
WalkerStops(seq, c) ==
    LET w == walk_maximal(seq, c[1], c[2])
    IN  /\ w.ret > c[2]
        /\ w.last >= c[2]
        /\ w.last <= RunEnd(seq, c[2])
        /\ w.ret <= RunEnd(seq, c[2]) + k
        /\ w.last + k <= Len(seq)
        /\ w.last < RunEnd(seq, c[2]) => ~NoRightNeighbor(seq, w.last)

\* C21: on every sequence of the input and for every range within [0, L - k],
\* a call of the walker from a valid start index i returns an index greater
\* than i; the last k-mer it looks at is no later than the last k-mer of the
\* placeholder-free run of i, where kmer_idx + k = seq_len or a placeholder
\* follows; it reads no position beyond seq_len; and output_gfa_off_substring
\* ends on every range. Stated of all the sequences before one is parsed, and
\* of the ranges of the workers while they run.
C21_WalkerTerminates ==
    /\ pc = "read" =>
          \A n \in 1..Len(input) :
              LET seq == input[n]
              IN  /\ \A c \in WalkerCalls(seq) : WalkerStops(seq, c)
                  /\ \A right \in 0..(Len(seq) - k) : \A left \in 0..right :
                        output_gfa_off_substring(seq, left, right).last
                            <= Len(seq) - k
    /\ pc = "workers" =>
          \A t \in Workers : \A c \in WalkerCalls(CurrentSeq) :
              (c[1] = task[t].right_end /\ c[2] >= task[t].left_end)
                  => WalkerStops(CurrentSeq, c)

\* C21 witness: the workers of a sequence have started, and the walker of one
\* of them went past its right end and stopped at a placeholder before the
\* end of the sequence.
C21_Witness ==
    /\ pc = "workers"
    /\ \E t \in Workers :
          LET w == output_gfa_off_substring(CurrentSeq, task[t].left_end,
                                            task[t].right_end)
          IN  /\ w.last > task[t].right_end
              /\ w.last + k < Len(CurrentSeq)
              /\ NoRightNeighbor(CurrentSeq, w.last)

\* ------------------------------------------------------------------ C22
\* block is a stretch of consecutive lines of lines.
IsBlockOf(block, lines) ==
    \E j \in 0..(Len(lines) - Len(block)) :
        SubSeq(lines, j + 1, j + Len(block)) = block

IsPrefixOf(head, lines) ==
    Len(head) <= Len(lines) /\ SubSeq(lines, 1, Len(head)) = head

\* What every step keeps of the S and L lines: the file only grows at its
\* end; the buffer of a thread is kept as the head of its buffer, or goes to
\* the file as one block in its order; and no line is dropped or copied.
RecordsKept ==
    /\ IsPrefixOf(sink, sink')
    /\ \A t \in Threads :
          \/ IsPrefixOf(output_buffer[t], output_buffer'[t])
          \/ IsBlockOf(output_buffer[t],
                       SubSeq(sink', Len(sink) + 1, Len(sink')))
    /\ \A i \in DOMAIN AllLines :
          AllLines[i].type \in {"S", "L"}
              => CopiesAfter(AllLines[i]) = Copies(AllLines[i])

\* Every buffer is empty at the end of the run.
AllFlushed == pc = "done" /\ \A t \in Threads : output_buffer[t] = <<>>

\* C22: no S or L line appended to the buffer of a thread is lost: every step
\* keeps it in the buffer or writes it to the output file, once and in the
\* order the buffer held it, at a threshold flush or at the final flush, and
\* the run comes to its end, where every buffer is empty and so every such
\* line is in the file.
C22_NoRecordLost == [][RecordsKept]_vars /\ <>[]AllFlushed

\* C22 witness: the run is over; an S or L line was written before a P line,
\* by a threshold flush, and the file ends with an S or L line, which the
\* final flush wrote after the last P line.
C22_Witness ==
    /\ pc = "done"
    /\ sink[Len(sink)].type \in {"S", "L"}
    /\ \E i, j \in DOMAIN sink :
          i < j /\ sink[i].type \in {"S", "L"} /\ sink[j].type = "P"

\* ------------------------------------------------------------------ C23
FatalErrors == {OPEN_ERROR, WRITE_ERROR, REOPEN_ERROR}

\* The messages a step writes to stderr.
Reported == SubSeq(stderr', Len(stderr) + 1, Len(stderr'))

\* The P lines, each complete, of the sequence being processed.
PathLinesOfSequence == {i \in PathLines : sink[i].name = seq_count}

\* A step that finds a failure of a path file exits, and writes no complete P
\* line for the sequence; one that finds the failure when the files are
\* opened or when write_gfa_path starts writes nothing to the output file.
FailureIsFatal ==
    \A i \in DOMAIN Reported :
        /\ Reported[i] \in FatalErrors =>
              /\ pc' = "aborted"
              /\ PathLinesOfSequence' = {}
              /\ PathLines' = PathLines
        /\ Reported[i] \in {OPEN_ERROR, WRITE_ERROR} => sink' = sink
        /\ Reported[i] = DELETE_ERROR =>
              /\ pc' = "done"
              /\ sink' = flush_buffers

ConstructionOrder == <<"edges", "vertices", "mphf", "dfa">>

\* C24: in every run of construct() that goes on, the work is done in the
\* order edge enumeration, vertex enumeration, hash table construction,
\* computation of the DFA states, extraction: while the DFA states are being
\* computed no extraction has started, an extraction starts only after
\* compute_DFA_states has returned, and a run that went on has been through
\* all the four phases at its end.
C24_PhasesInOrder ==
    /\ Len(phases) <= 4 => phases = SubSeq(ConstructionOrder, 1, Len(phases))
    /\ Len(phases) > 4 =>
          /\ SubSeq(phases, 1, 4) = ConstructionOrder
          /\ SubSeq(phases, 5, Len(phases))
                \in {<<"unitigs">>, <<"unitigs", "cycles">>, <<"cycles">>}
    /\ rpc = "computing" => phases = SubSeq(ConstructionOrder, 1, 3)
    /\ rpc \in {"unitigs", "extract"} =>
          Len(phases) >= 4 /\ SubSeq(phases, 1, 4) = ConstructionOrder
    /\ (rpc = "none" /\ phases # <<>>) => Len(phases) >= 4

\* C24 witness: the maximal unitigs have been extracted, after the four
\* phases in their order.
C24_Witness ==
    /\ rpc = "unitigs"
    /\ phases = ConstructionOrder \o <<"unitigs">>

\* ------------------------------------------------------------------ C25
\* The build-info file says that the graph has no detached cycles left to
\* extract.
FileSaysComplete ==
    json_file.exists /\ (~json_file.has_dcc \/ json_file.dcc_extracted)

\* What every step of a run keeps to: construct() called with a file that
\* says the graph is complete returns and changes nothing; the maximal
\* unitigs are extracted only without a build-info file; the detached cycles
\* are extracted only if asked for, if the graph has them and if no run has
\* extracted them.
NoWorkRedone ==
    /\ (rpc = "object" /\ FileSaysComplete) =>
          /\ rpc' = "none"
          /\ UNCHANGED <<json_file, hash_table_file, phases, extractions>>
    /\ extractions'.unitigs # extractions.unitigs => ~json_file.exists
    /\ extractions'.cycles # extractions.cycles =>
          /\ params.extract_cycles
          /\ graph_has_dcc
          /\ extractions.cycles = 0
          /\ ~json_file.exists \/ (json_file.has_dcc /\ ~json_file.dcc_extracted)

\* C25: construct() does nothing when the build-info file exists and the
\* graph has no detached cycles or they are extracted already; the maximal
\* unitigs are extracted only when the file does not exist, and the detached
\* cycles only when their extraction is asked for, the graph has them and
\* they have not been extracted before; so over the runs the detached cycles
\* are extracted at most once.
C25_NoWorkRedone ==
    /\ [][NoWorkRedone]_vars
    /\ [](extractions.cycles <= 1 /\ extractions.unitigs <= 1)

\* C25 witness: a run on a graph built by an earlier run, which left its
\* detached cycles, has extracted them, and not the maximal unitigs again.
C25_Witness ==
    /\ rpc = "extract"
    /\ json_file.exists
    /\ phases = ConstructionOrder \o <<"cycles">>
    /\ extractions = [unitigs |-> 1, cycles |-> 1]
====
